---- MODULE Spec2Model ----
\* Barcode access system: issuance of single-use passes and their redemption
\* through POST /verify, GET /verify?scannedCode and GET /mobile-scan/:code,
\* in the two server files of the repository (src/server.js, which declares
\* its own schema, and src/unnamed/part_000, which imports models/Barcode.js).
EXTENDS Integers, FiniteSets, Sequences, TLC

VARIABLES
    variant,   \* which server file is deployed: "server" or "part000"
    tz,        \* offset of the server's local time from UTC, in ticks
    now,       \* the wall clock (new Date() / Date.now()), in ticks since the epoch
    store,     \* the barcodes collection: code -> stored document
    req,       \* the redemption requests in flight or answered, per slot
    nextId,    \* the _id the store gives to the next created document
    health,    \* position of a GET /health request of server.js
    issue,     \* the answer of the last POST /generate request
    retired,   \* history: the codes of the documents removed from the collection
    validated, \* the last call of the validateBarcodeInput middleware
    encoded    \* the payloads of the last code handed to the barcode encoder

vars == <<variant, tz, now, store, req, nextId, health, issue, retired, validated,
         encoded>>

----------------------------------------------------------------------------
\* Scale of the model clock and bounds.

\* a day is divided into SlotsPerDay values of "HH:MM"
SlotsPerDay == 4
\* clock ticks inside one "HH:MM" value (the seconds getMinutes() drops)
TicksPerSlot == 2
\* the calendar day (days since the epoch day 0) passes are scheduled on
EventDay == 2
\* ticks the clock advances in the specifications with interleaved requests
ShortTicks == 2
\* redemption requests that can be in flight together
NumReq == 2
\* largest expiryHours submitted, in model hours
MaxExpiry == 1
\* documents the collection creates in one run
MaxDocs == 3

TicksPerDay == SlotsPerDay * TicksPerSlot
TicksPerHour == TicksPerSlot
\* the clock starts on the evening before the event day and runs to the
\* morning after it
FirstTick == EventDay * TicksPerDay - 2 * TicksPerSlot
LastTick == (EventDay + 1) * TicksPerDay + 2 * TicksPerSlot - 1
Slots == 0 .. (SlotsPerDay - 1)

\* JavaScript null / undefined for a Date, a String or a Number field
Null == -1

\* '09:00' and '17:00', the defaults POST /generate gives to activeTime and endTime
DefaultActiveTime == 1
DefaultEndTime == 2
\* '00:00', the schema default of activeTime; '23:59' is the last value of the day
SchemaActiveTime == 0
SchemaEndTime == SlotsPerDay - 1

\* the codes: two that generateUniqueCode can return, and the two fixed ones
GenCodes == {"A1", "B2"}
HealthCode == "HEALTH_CHECK"
TestCode == "TIMETEST123"
Codes == GenCodes \cup {HealthCode, TestCode}

\* the characters of each code
Chars(c) ==
    CASE c = "A1" -> <<"A", "1">>
      [] c = "B2" -> <<"B", "2">>
      [] c = HealthCode -> <<"H", "E", "A", "L", "T", "H", "_", "C", "H", "E", "C", "K">>
      [] c = TestCode -> <<"T", "I", "M", "E", "T", "E", "S", "T", "1", "2", "3">>

\* the string with these characters: a code, or a string that is no code
StrOf(chars) ==
    IF \E c \in Codes : Chars(c) = chars
    THEN CHOOSE c \in Codes : Chars(c) = chars
    ELSE "unknown"

\* one character of String.prototype.toUpperCase (letters of the generated codes)
UpperChar(ch) ==
    CASE ch = "a" -> "A"
      [] ch = "b" -> "B"
      [] OTHER -> ch

\* whitespace as String.prototype.trim sees it
IsSpace(ch) == ch = " "

RECURSIVE TrimStart(_)
TrimStart(s) == IF s # <<>> /\ IsSpace(Head(s)) THEN TrimStart(Tail(s)) ELSE s

RECURSIVE TrimEnd(_)
TrimEnd(s) ==
    IF s # <<>> /\ IsSpace(s[Len(s)]) THEN TrimEnd(SubSeq(s, 1, Len(s) - 1)) ELSE s

\* s.trim()
Trim(s) == TrimEnd(TrimStart(s))

\* toUpperCase that leaves every character as it is
KeepCase(s) == s

\* s.toUpperCase()
ToUpperCase(s) == [i \in DOMAIN s |-> UpperChar(s[i])]

Variants == {"server", "part000"}
Routes == {"postVerify", "getVerify", "mobileScan"}
Slot == 1 .. NumReq
\* the success and error query parameters of GET /verify: neither, or one
QueryParams == {"none", "success", "error"}

----------------------------------------------------------------------------
\* Dates.

\* getFullYear/getMonth/getDate: the calendar day in the server's local time
LocalDay(t) == (t + tz) \div TicksPerDay
\* toISOString().split('T')[0]: the calendar day in UTC
UtcDay(t) == t \div TicksPerDay
\* getHours():getMinutes() and toTimeString().slice(0, 5): local "HH:MM"
CurrentTime(t) == ((t + tz) % TicksPerDay) \div TicksPerSlot
\* new Date(activeDate) for a date-only string: UTC midnight of that day
ParseDate(d) == d * TicksPerDay
\* new Date(x): null gives the epoch, a Date gives the same instant
NewDate(x) == IF x = Null THEN 0 ELSE x

\* a < b on strings, false when b is undefined
StrLess(a, b) == b # Null /\ a < b
\* a > b on strings, false when b is undefined
StrGreater(a, b) == b # Null /\ a > b

----------------------------------------------------------------------------
\* Free text (issuedTo, purpose): lead whitespace characters followed by len
\* other characters; NoTxt when the field is absent from the request.

Txt(lead, len) == [lead |-> lead, len |-> len]
NoTxt == [lead |-> Null, len |-> Null]
\* s.length
Length(s) == s.lead + s.len
\* s.trim()
TrimTxt(s) == [lead |-> 0, len |-> s.len]
\* a JSON number sent where a string is expected
Num(n) == [lead |-> Null, len |-> n]
\* typeof s === 'string'
IsString(s) == s.lead # Null
\* !s: true for undefined, for "" and for the number 0
Falsy(s) == s = NoTxt \/ (IF IsString(s) THEN Length(s) = 0 ELSE s.len = 0)

\* the longest issuedTo and purpose validateBarcodeInput lets through
MaxIssuedTo == 100
MaxPurpose == 200

----------------------------------------------------------------------------
\* The stored document.

\* SchemaCast with a used default of true
SchemaCastUsed(v, id, issuedTo, purpose, expiresAt, activeDate, activeTime, endTime, allowEarlyAccess) ==
    [id |-> id, used |-> TRUE, usedAt |-> Null, scannerId |-> "none",
     expiresAt |-> expiresAt, issuedTo |-> Length(issuedTo),
     purpose |-> IF purpose = NoTxt THEN Null ELSE Length(purpose),
     activeDate |-> activeDate, activeTime |-> activeTime, endTime |-> endTime,
     allowEarlyAccess |-> allowEarlyAccess]

\* new Barcode(data) under the schema of the deployed server file: the schema
\* of server.js has no schedule paths, so they are not kept on the document;
\* models/Barcode.js keeps them and fills in its defaults
\* issuedTo and purpose are stored as their lengths (Null when absent)
SchemaCast(v, id, issuedTo, purpose, expiresAt, activeDate, activeTime, endTime, allowEarlyAccess) ==
    IF v = "server"
    THEN [id |-> id, used |-> FALSE, usedAt |-> Null, scannerId |-> "none",
          expiresAt |-> expiresAt,
          issuedTo |-> IF issuedTo = NoTxt THEN Null ELSE Length(issuedTo),
          purpose |-> IF purpose = NoTxt THEN Null ELSE Length(purpose),
          activeDate |-> Null, activeTime |-> Null, endTime |-> Null,
          allowEarlyAccess |-> FALSE]
    ELSE [id |-> id, used |-> FALSE, usedAt |-> Null, scannerId |-> "none",
          expiresAt |-> expiresAt,
          issuedTo |-> IF issuedTo = NoTxt THEN Null ELSE TrimTxt(issuedTo).len,
          purpose |-> IF purpose = NoTxt THEN Null ELSE TrimTxt(purpose).len,
          activeDate |-> activeDate,
          activeTime |-> IF activeTime = Null THEN SchemaActiveTime ELSE activeTime,
          endTime |-> IF endTime = Null THEN SchemaEndTime ELSE endTime,
          allowEarlyAccess |-> allowEarlyAccess]

\* the required validator of issuedTo at save(): a missing or empty string fails
ValidationFails(doc) == doc.issuedTo = Null \/ doc.issuedTo = 0

\* Barcode.findOne({ code }): <<>> when no document matches
FindOne(code) == IF code \in DOMAIN store THEN <<store[code]>> ELSE <<>>

\* MarkUsed without the assignment of usedAt
MarkUsedNoStamp(doc, t) == [doc EXCEPT !.used = TRUE]

\* the paths a granting handler modifies before save(): used and usedAt
MarkUsed(doc, t) == [doc EXCEPT !.used = TRUE, !.usedAt = t]

\* SaveUsed that writes used and usedAt to every document of the collection
SaveUsedAll(code, id, usedAt) ==
    [c \in DOMAIN store |-> MarkUsed(store[c], usedAt)]

\* the scanners that call markAsUsed; "none" is its default argument null
Scanners == {"none", "S1", "S2"}

\* barcodeSchema.methods.markAsUsed(scannerId) on a loaded document at instant
\* t, up to its save(): used and usedAt are assigned whatever used was
markAsUsed(doc, scannerId, t) ==
    [doc EXCEPT !.used = TRUE, !.usedAt = t,
                !.scannerId = IF scannerId # "none" THEN scannerId ELSE @]

\* barcode.save() of a document loaded by findOne: one update of the modified
\* paths of the document with that _id; no document with that _id, no write
SaveUsed(code, id, usedAt) ==
    IF code \in DOMAIN store /\ store[code].id = id
    THEN [store EXCEPT ![code] = MarkUsed(store[code], usedAt)]
    ELSE store

----------------------------------------------------------------------------
\* The decision of each redemption handler on a document d at instant t.

\* the time window of the event day in POST /verify and GET /verify
VerifyWindow(d, t) ==
    IF StrLess(CurrentTime(t), d.activeTime) THEN "too_early"
    ELSE IF StrGreater(CurrentTime(t), d.endTime) THEN "too_late"
    ELSE "grant"

\* POST /verify, after the document was found
PostVerifyDecision(d, t) ==
    IF d.used THEN "used"
    ELSE IF d.expiresAt # Null /\ t > d.expiresAt THEN "expired"
    ELSE IF d.activeDate # Null
    THEN LET today == LocalDay(t)
             eventDay == LocalDay(NewDate(d.activeDate))
         IN  IF today < eventDay /\ ~d.allowEarlyAccess THEN "not_yet_active"
             ELSE IF today > eventDay THEN "window_elapsed"
             ELSE IF today = eventDay THEN VerifyWindow(d, t)
             ELSE "grant"
    ELSE "grant"

\* GET /verify?scannedCode: only an unused document is evaluated, and its
\* expiresAt is not looked at
GetVerifyDecision(d, t) ==
    IF d.used THEN "fallthrough"
    ELSE IF d.activeDate # Null
    THEN LET today == LocalDay(t)
             eventDay == LocalDay(NewDate(d.activeDate))
         IN  IF today < eventDay /\ ~d.allowEarlyAccess THEN "not_yet_active"
             ELSE IF today > eventDay THEN "window_elapsed"
             ELSE IF today = eventDay THEN VerifyWindow(d, t)
             ELSE "grant"
    ELSE "grant"

\* GET /mobile-scan/:code of server.js
MobileScanServer(d, t) ==
    IF d.used THEN "used"
    ELSE IF d.expiresAt # Null /\ t > d.expiresAt THEN "expired"
    ELSE IF d.activeDate # Null
    THEN LET nowDate == UtcDay(t)
             eventDate == UtcDay(NewDate(d.activeDate))
         IN  IF nowDate < eventDate /\ ~d.allowEarlyAccess THEN "not_yet_active"
             ELSE IF nowDate > eventDate THEN "window_elapsed"
             ELSE IF nowDate = eventDate
             THEN IF d.activeTime # Null /\ CurrentTime(t) < d.activeTime
                  THEN "too_early"
                  ELSE IF d.endTime # Null /\ CurrentTime(t) > d.endTime
                  THEN "too_late"
                  ELSE "grant"
             ELSE "grant"
    ELSE "grant"

\* GET /mobile-scan/:code of part_000: the event date is computed from
\* new Date(barcode.activeDate) whether or not activeDate is set
MobileScanPart(d, t) ==
    LET eventDateStr == UtcDay(NewDate(d.activeDate))
        todayStr == UtcDay(t)
        startTime == IF d.activeTime = Null THEN SchemaActiveTime ELSE d.activeTime
        endTime == IF d.endTime = Null THEN SchemaEndTime ELSE d.endTime
    IN  IF d.used THEN "used"
        ELSE IF d.expiresAt # Null /\ t > d.expiresAt THEN "expired"
        ELSE IF todayStr < eventDateStr /\ ~d.allowEarlyAccess THEN "not_yet_active"
        ELSE IF todayStr > eventDateStr THEN "window_elapsed"
        ELSE IF todayStr = eventDateStr /\ CurrentTime(t) < startTime THEN "too_early"
        ELSE IF todayStr = eventDateStr /\ CurrentTime(t) > endTime THEN "too_late"
        ELSE "grant"

\* the verdict of a route of server file v on the result of findOne
Decide(v, route, found, t) ==
    IF found = <<>>
    THEN IF route = "getVerify" THEN "fallthrough" ELSE "not_found"
    ELSE IF route = "postVerify" THEN PostVerifyDecision(found[1], t)
    ELSE IF route = "getVerify" THEN GetVerifyDecision(found[1], t)
    ELSE IF v = "server" THEN MobileScanServer(found[1], t)
    ELSE MobileScanPart(found[1], t)

\* the default render of GET /verify: result is built from the success and
\* error query parameters, and is null without them
DefaultRender(qs) ==
    IF qs = "success" THEN "param_granted"
    ELSE IF qs = "error" THEN "param_denied"
    ELSE "no_result"

\* what a route answers when a store operation throws
CatchResponse(route, qs) ==
    IF route = "getVerify" THEN DefaultRender(qs) ELSE "system_error"

\* what a route answers for a verdict that is not a grant
DenyResponse(route, verdict, qs) ==
    IF verdict = "fallthrough" THEN DefaultRender(qs) ELSE verdict

\* result.access of a response
Access(resp) ==
    IF resp \in {"granted", "param_granted"} THEN "granted"
    ELSE IF resp = "no_result" THEN "none"
    ELSE "denied"

----------------------------------------------------------------------------
\* Initial state: the server file is deployed with an empty collection.

TzSet == {0 - TicksPerSlot, 0, TicksPerSlot}

EmptyStore == [c \in {} |-> Null]

\* a request: where its handler is, what it was asked, the document it loaded,
\* the responses it has sent (calls of res.render) and the last of them
IdleReq == [pc |-> "idle", route |-> "none", submitted |-> <<>>, code |-> "none",
            qs |-> "none", id |-> 0, usedAt |-> Null, resp |-> "none",
            sent |-> 0]

\* the answer of POST /generate: what it rendered, the code it generated (one
\* call of generateUniqueCode per request) and the error save() threw
NoIssue == [resp |-> "none", code |-> "none", attempts |-> 0, error |-> "none"]

\* no call of validateBarcodeInput yet; then its arguments, the calls of
\* next(), the status codes of the responses it sent, and whether it threw
NotValidated == [called |-> FALSE, issuedTo |-> NoTxt, purpose |-> NoTxt,
                 next |-> 0, responses |-> <<>>, threw |-> FALSE]

\* nothing encoded yet; then the deployment and the code, the scanUrl POST
\* /generate reports, the text it encodes and the text GET /download encodes
NotEncoded == [called |-> FALSE, env |-> "none", origin |-> "none", code |-> "none",
               barcodeType |-> "none", scanUrl |-> <<>>, generated |-> <<>>,
               downloaded |-> <<>>]

Init ==
    /\ variant \in Variants
    /\ tz \in TzSet
    /\ now = FirstTick
    /\ store = EmptyStore
    /\ req = [r \in Slot |-> IdleReq]
    /\ nextId = 1
    /\ health = "idle"
    /\ issue = NoIssue
    /\ retired = {}
    /\ validated = NotValidated
    /\ encoded = NotEncoded

----------------------------------------------------------------------------
\* The clock.

Tick(last) ==
    /\ now < last
    /\ now' = now + 1
    /\ UNCHANGED <<variant, tz, store, req, nextId, health, issue, retired, validated, encoded>>

----------------------------------------------------------------------------
\* POST /generate.

\* expiresAt of a new pass: null unless expiryHours is given
ExpiresAt(expiryHours, t) ==
    IF expiryHours = Null THEN Null ELSE t + expiryHours * TicksPerHour

\* allowEarlyAccess as a request can carry it: missing, a JSON boolean, or the
\* string a form sends
EarlyForms == {"absent", "false", "true", "'false'", "'true'"}

\* the boolean POST /generate stores for a submitted allowEarlyAccess, whose
\* default is false: !!allowEarlyAccess in server.js, where every string is
\* truthy, and allowEarlyAccess === 'true' || allowEarlyAccess === true in
\* part_000
AllowEarlyAccess(v, x) ==
    LET given == IF x = "absent" THEN "false" ELSE x
    IN  IF v = "server" THEN given # "false" ELSE given \in {"'true'", "true"}

\* the document POST /generate builds from the request body; activeDate is a
\* calendar day or Null, activeTime and endTime a slot or Null when absent
GenerateDoc(v, id, t, issuedTo, purpose, expiryHours, activeDate, activeTime, endTime, allowEarlyAccess) ==
    SchemaCast(v, id, TrimTxt(issuedTo),
               IF Falsy(purpose) THEN NoTxt ELSE TrimTxt(purpose),
               ExpiresAt(expiryHours, t),
               IF activeDate = Null THEN Null ELSE ParseDate(activeDate),
               IF activeTime = Null THEN DefaultActiveTime ELSE activeTime,
               IF endTime = Null THEN DefaultEndTime ELSE endTime,
               AllowEarlyAccess(v, allowEarlyAccess))

\* POST /generate with the code generateUniqueCode returns for this request:
\* without issuedTo it answers that the field is required; otherwise it builds
\* the document and saves it. save() throws on a failed validation and on a
\* code that is already in the collection (unique index), and the handler then
\* answers that generation failed; nothing is generated a second time. After
\* the save the barcode image is rendered, and when that throws the handler
\* answers that generation failed as well
Generate(code, issuedTo, purpose, expiryHours, activeDate, activeTime, endTime, allowEarlyAccess, imageFails) ==
    /\ nextId <= MaxDocs
    /\ IF Falsy(issuedTo)
       THEN /\ issue' = [resp |-> "required", code |-> "none", attempts |-> 0,
                         error |-> "none"]
            /\ UNCHANGED <<store, nextId, validated, encoded>>
       ELSE LET doc == GenerateDoc(variant, nextId, now, issuedTo, purpose,
                           expiryHours, activeDate, activeTime, endTime,
                           allowEarlyAccess)
            IN  IF ValidationFails(doc)
                THEN /\ issue' = [resp |-> "failed", code |-> code, attempts |-> 1,
                                  error |-> "ValidationError"]
                     /\ UNCHANGED <<store, nextId, validated, encoded>>
                ELSE IF code \in DOMAIN store
                THEN /\ issue' = [resp |-> "failed", code |-> code, attempts |-> 1,
                                  error |-> "E11000"]
                     /\ UNCHANGED <<store, nextId, validated, encoded>>
                ELSE /\ store' = store @@ (code :> doc)
                     /\ nextId' = nextId + 1
                     /\ issue' = IF imageFails
                                 THEN [resp |-> "failed", code |-> code,
                                       attempts |-> 1, error |-> "ImageError"]
                                 ELSE [resp |-> "created", code |-> code,
                                       attempts |-> 1, error |-> "none"]
    /\ UNCHANGED <<variant, tz, now, req, health, retired, validated, encoded>>

----------------------------------------------------------------------------
\* The redemption requests.

\* the handler from the submitted code to its first answer or to its await of
\* save(): findOne of the trimmed, uppercased code, then the checks, then
\* used = true and usedAt = new Date() on the loaded document
Answer(route, submitted, qs, lookupFails) ==
    LET code == StrOf(ToUpperCase(Trim(submitted)))
        found == FindOne(code)
        verdict == Decide(variant, route, found, now)
        asked == [IdleReq EXCEPT !.route = route, !.submitted = submitted,
                      !.code = code, !.qs = qs]
    IN  IF submitted = <<>>
        THEN [asked EXCEPT !.pc = "done", !.sent = @ + 1,
                  !.resp = IF route = "getVerify" THEN DefaultRender(qs)
                           ELSE "no_code"]
        ELSE IF lookupFails
        THEN [asked EXCEPT !.pc = "done", !.sent = @ + 1,
                  !.resp = CatchResponse(route, qs)]
        ELSE IF verdict = "grant"
        THEN [asked EXCEPT !.pc = "saving", !.id = found[1].id, !.usedAt = now]
        ELSE [asked EXCEPT !.pc = "done", !.sent = @ + 1,
                  !.resp = DenyResponse(route, verdict, qs)]

\* Start that also stamps usedAt on the document of a request it denies
StartStampsDenied(r, route, submitted, qs, lookupFails) ==
    /\ req[r].pc = "idle"
    /\ req' = [req EXCEPT ![r] = Answer(route, submitted, qs, lookupFails)]
    /\ store' = IF req'[r].pc = "done" /\ req'[r].code \in DOMAIN store
                THEN [store EXCEPT ![req'[r].code].usedAt = now]
                ELSE store
    /\ UNCHANGED <<variant, tz, now, nextId, health, issue, retired, validated, encoded>>

\* request r arrives with a submitted code
Start(r, route, submitted, qs, lookupFails) ==
    /\ req[r].pc = "idle"
    /\ req' = [req EXCEPT ![r] = Answer(route, submitted, qs, lookupFails)]
    /\ UNCHANGED <<variant, tz, now, store, nextId, health, issue, retired, validated, encoded>>

\* await barcode.save() returns and the handler answers access granted
SaveOk(r) ==
    /\ req[r].pc = "saving"
    /\ req[r].code \in DOMAIN store /\ store[req[r].code].id = req[r].id
    /\ store' = SaveUsed(req[r].code, req[r].id, req[r].usedAt)
    /\ req' = [req EXCEPT ![r].pc = "done", ![r].sent = @ + 1,
                  ![r].resp = "granted"]
    /\ UNCHANGED <<variant, tz, now, nextId, health, issue, retired, validated, encoded>>

\* the document was removed while the request was waiting: the update matches
\* nothing, and save() either throws or resolves, depending on the mongoose
\* version
SaveGone(r, throws) ==
    /\ req[r].pc = "saving"
    /\ ~(req[r].code \in DOMAIN store /\ store[req[r].code].id = req[r].id)
    /\ req' = [req EXCEPT ![r].pc = "done", ![r].sent = @ + 1,
                  ![r].resp = IF throws THEN CatchResponse(req[r].route, req[r].qs)
                              ELSE "granted"]
    /\ UNCHANGED <<variant, tz, now, store, nextId, health, issue, retired, validated, encoded>>

\* SaveFails whose catch block renders nothing
SaveFailsUnanswered(r, committed) ==
    /\ req[r].pc = "saving"
    /\ store' = IF committed
                THEN SaveUsed(req[r].code, req[r].id, req[r].usedAt)
                ELSE store
    /\ req' = [req EXCEPT ![r].pc = "done"]
    /\ UNCHANGED <<variant, tz, now, nextId, health, issue, retired, validated, encoded>>

\* save() rejects (store error or timeout); the write was committed or not
SaveFails(r, committed) ==
    /\ req[r].pc = "saving"
    /\ store' = IF committed
                THEN SaveUsed(req[r].code, req[r].id, req[r].usedAt)
                ELSE store
    /\ req' = [req EXCEPT ![r].pc = "done", ![r].sent = @ + 1,
                  ![r].resp = CatchResponse(req[r].route, req[r].qs)]
    /\ UNCHANGED <<variant, tz, now, nextId, health, issue, retired, validated, encoded>>

\* the request is over
Close(r) ==
    /\ req[r].pc = "done"
    /\ req' = [req EXCEPT ![r] = IdleReq]
    /\ UNCHANGED <<variant, tz, now, store, nextId, health, issue, retired, validated, encoded>>

----------------------------------------------------------------------------
\* The other routes that write to the collection.

\* GET /health of server.js saves a HEALTH_CHECK document ...
HealthSave ==
    /\ variant = "server"
    /\ health = "idle"
    /\ HealthCode \notin DOMAIN store
    /\ nextId <= MaxDocs
    /\ store' = store @@ (HealthCode :>
                    SchemaCast(variant, nextId, Txt(0, 12), Txt(0, 24), Null,
                               Null, Null, Null, FALSE))
    /\ nextId' = nextId + 1
    /\ health' = "saved"
    /\ UNCHANGED <<variant, tz, now, req, issue, retired, validated, encoded>>

\* HealthDelete with a filter that matches every document
HealthDeleteAll ==
    /\ health = "saved"
    /\ store' = EmptyStore
    /\ health' = "idle"
    /\ retired' = retired \cup DOMAIN store
    /\ UNCHANGED <<variant, tz, now, req, nextId, issue, validated, encoded>>

\* ... and then deletes it: Barcode.deleteOne({ code: 'HEALTH_CHECK' })
HealthDelete ==
    /\ health = "saved"
    /\ store' = [c \in DOMAIN store \ {HealthCode} |-> store[c]]
    /\ health' = "idle"
    /\ retired' = retired \cup (DOMAIN store \cap {HealthCode})
    /\ UNCHANGED <<variant, tz, now, req, nextId, issue, validated, encoded>>

\* GET /test-time-validation creates TIMETEST123, active tomorrow, if missing
TestTimeValidation ==
    /\ TestCode \notin DOMAIN store
    /\ nextId <= MaxDocs
    /\ store' = store @@ (TestCode :>
                    SchemaCast(variant, nextId, Txt(0, 14), Txt(0, 23), Null,
                               now + TicksPerDay,
                               DefaultActiveTime, DefaultEndTime, FALSE))
    /\ nextId' = nextId + 1
    /\ UNCHANGED <<variant, tz, now, req, health, issue, retired, validated, encoded>>

\* GET /reset-database of part_000 drops the barcodes collection
ResetDatabase ==
    /\ variant = "part000"
    /\ store # EmptyStore
    /\ store' = EmptyStore
    /\ retired' = retired \cup DOMAIN store
    /\ UNCHANGED <<variant, tz, now, req, nextId, health, issue, validated, encoded>>

\* a caller loads the document of a code and calls markAsUsed on it (the
\* method of models/Barcode.js, which part_000 imports)
CallMarkAsUsed(code, scannerId) ==
    /\ variant = "part000"
    /\ code \in DOMAIN store
    /\ store' = [store EXCEPT ![code] = markAsUsed(store[code], scannerId, now)]
    /\ UNCHANGED <<variant, tz, now, req, nextId, health, issue, retired, validated, encoded>>

\* validateBarcodeInput(req, res, next) on a body with these issuedTo and
\* purpose: the calls of next(), the status codes it responds with, and
\* whether it throws (issuedTo.trim is not a function when issuedTo is not a
\* string; the length of a number is undefined, and undefined > 200 is false)
validateBarcodeInput(issuedTo, purpose) ==
    LET reject == [next |-> 0, responses |-> <<400>>, threw |-> FALSE]
    IN  IF Falsy(issuedTo) THEN reject
        ELSE IF ~IsString(issuedTo)
        THEN [next |-> 0, responses |-> <<>>, threw |-> TRUE]
        ELSE IF Length(TrimTxt(issuedTo)) = 0 THEN reject
        ELSE IF Length(issuedTo) > MaxIssuedTo THEN reject
        ELSE IF ~Falsy(purpose) /\ IsString(purpose) /\ Length(purpose) > MaxPurpose
        THEN reject
        ELSE [next |-> 1, responses |-> <<>>, threw |-> FALSE]

\* a request body goes through the middleware
Validate(issuedTo, purpose) ==
    /\ validated' = [called |-> TRUE, issuedTo |-> issuedTo, purpose |-> purpose]
                         @@ validateBarcodeInput(issuedTo, purpose)
    /\ UNCHANGED <<variant, tz, now, store, req, nextId, health, issue, retired, encoded>>

----------------------------------------------------------------------------
\* The barcode encoder. A text is the sequence of the pieces it is made of.

\* NODE_ENV, and protocol://host of the requests in development
Envs == {"production", "development"}
Origins == {"http://localhost:3000", "https://pass.example.org"}
\* the bcid values of the form: the scannable type and two others
BarcodeTypes == {"qrcode", "code128", "datamatrix"}

\* baseUrl in POST /generate and in GET /download/:code of server file v
BaseUrl(v, route, env, origin) ==
    IF env # "production" THEN <<origin>>
    ELSE IF route = "download" /\ v = "server"
    THEN <<"https://barcodey.vercel.app", "/">>
    ELSE <<"https://bar-event.vercel.app">>

\* encodedText of generateBarcodeImage(text, type, baseUrl)
EncodedText(text, type, baseUrl) ==
    IF type = "qrcode" THEN baseUrl \o <<"/mobile-scan/", text>> ELSE <<text>>

\* a code is issued by POST /generate with a barcode type and then downloaded
\* through GET /download/:code on the same deployment
Encode(env, origin, code, barcodeType) ==
    /\ encoded' =
           [called |-> TRUE, env |-> env, origin |-> origin, code |-> code,
            barcodeType |-> barcodeType,
            scanUrl |-> BaseUrl(variant, "generate", env, origin)
                            \o <<"/mobile-scan/", code>>,
            generated |-> EncodedText(code, barcodeType,
                              BaseUrl(variant, "generate", env, origin)),
            downloaded |-> EncodedText(code, "qrcode",
                               BaseUrl(variant, "download", env, origin))]
    /\ UNCHANGED <<variant, tz, now, store, req, nextId, health, issue, retired,
                   validated>>

\* barcodeSchema.methods.isActive() on document d at instant t: toDateString
\* and toTimeString are in the server's local time
isActive(d, t) ==
    IF d.activeDate = Null THEN TRUE
    ELSE IF LocalDay(t) # LocalDay(NewDate(d.activeDate)) THEN FALSE
    ELSE IF d.activeTime # Null /\ d.endTime # Null
    THEN CurrentTime(t) >= d.activeTime /\ CurrentTime(t) <= d.endTime
    ELSE TRUE

----------------------------------------------------------------------------
\* Specifications.

\* the whole application with one redemption request at a time: issuance
\* without a schedule or an expiry, redemption of every code on a store that
\* can fail,
\* GET /health, GET /test-time-validation and GET /reset-database
Next ==
    \/ Tick(FirstTick + ShortTicks)
    \/ \E code \in {"A1"} \ DOMAIN store :
           Generate(code, Txt(0, 1), NoTxt, Null, Null, Null, Null, "false", FALSE)
    \/ \E route \in Routes, code \in {"A1", HealthCode, TestCode},
          qs \in QueryParams, lookupFails \in BOOLEAN :
           Start(1, route, Chars(code), qs, lookupFails)
    \/ SaveOk(1)
    \/ \E throws \in BOOLEAN : SaveGone(1, throws)
    \/ \E committed \in BOOLEAN : SaveFails(1, committed)
    \/ Close(1)
    \/ HealthSave
    \/ HealthDelete
    \/ TestTimeValidation
    \/ ResetDatabase

Spec == Init /\ [][Next]_vars

\* redemption requests interleaved at their awaits on one pass
NextRace ==
    \/ Tick(FirstTick + ShortTicks)
    \/ \E code \in {"A1"} \ DOMAIN store, expiryHours \in {Null, MaxExpiry} :
           Generate(code, Txt(0, 1), NoTxt, expiryHours, Null, Null, Null, "false", FALSE)
    \/ \E r \in Slot, route \in Routes : Start(r, route, Chars("A1"), "none", FALSE)
    \/ \E r \in Slot : SaveOk(r)
    \/ \E r \in Slot : Close(r)

SpecRace == Init /\ [][NextRace]_vars

\* one pass with every schedule, redeemed by one request at a time, under its
\* code or under a code that was not issued, on a store that does not fail
NextSched ==
    \/ Tick(LastTick)
    \/ \E code \in {"A1"} \ DOMAIN store,
          expiryHours \in {Null, MaxExpiry}, activeDate \in {Null, EventDay},
          activeTime \in {Null, SchemaActiveTime}, endTime \in {Null, SchemaEndTime},
          allowEarlyAccess \in EarlyForms :
           Generate(code, Txt(0, 1), NoTxt, expiryHours, activeDate, activeTime,
                    endTime, allowEarlyAccess, FALSE)
    \/ \E route \in Routes, code \in GenCodes :
           Start(1, route, Chars(code), "none", FALSE)
    \/ SaveOk(1)
    \/ Close(1)

SpecSched == Init /\ [][NextSched]_vars

\* spaces a client puts before and after a submitted code
MaxPad == 1

\* one character of a lowercase spelling
LowerChar(ch) ==
    CASE ch = "A" -> "a"
      [] ch = "B" -> "b"
      [] OTHER -> ch

\* n spaces
Pad(n) == [i \in 1 .. n |-> " "]

\* the ways a client can write code c: any of its letters in lowercase, with
\* spaces before and after
Spellings(c) ==
    { Pad(l) \o [i \in DOMAIN Chars(c) |->
                    IF i \in m THEN LowerChar(Chars(c)[i]) ELSE Chars(c)[i]] \o Pad(t) :
        l \in 0 .. MaxPad, t \in 0 .. MaxPad, m \in SUBSET DOMAIN Chars(c) }

\* passes without a schedule, each redeemed under every spelling of its code
NextLookup ==
    \/ Tick(FirstTick + ShortTicks)
    \/ \E code \in GenCodes \ DOMAIN store, expiryHours \in {Null, MaxExpiry} :
           Generate(code, Txt(0, 1), NoTxt, expiryHours, Null, Null, Null, "false", FALSE)
    \/ \E route \in Routes, code \in GenCodes :
           \E submitted \in Spellings(code) :
               Start(1, route, submitted, "none", FALSE)
    \/ SaveOk(1)
    \/ Close(1)

SpecLookup == Init /\ [][NextLookup]_vars

\* the issuedTo, purpose and expiryHours an issuance request can carry:
\* missing, blank, short, at the length limits and over them; no expiryHours
\* (or one that is not a number), "0", a number of hours, a negative number
IssuedToForms ==
    {NoTxt} \cup { Txt(lead, len) : lead \in 0 .. MaxPad,
                                    len \in {0, 1, MaxIssuedTo, MaxIssuedTo + 1} }
PurposeForms ==
    {NoTxt} \cup { Txt(0, len) : len \in {0, MaxPurpose, MaxPurpose + 1} }
ExpiryForms == {Null, 0, MaxExpiry, 0 - MaxExpiry - 1}

\* issuance with every kind of issuedTo, purpose and expiryHours, with a
\* generated code that is the same for every request, so that after the first
\* pass it is already in the collection, and with a barcode image that can
\* fail to render
NextIssue ==
    \/ \E issuedTo \in IssuedToForms, purpose \in PurposeForms,
          expiryHours \in ExpiryForms, imageFails \in BOOLEAN :
           Generate("A1", issuedTo, purpose, expiryHours, Null, Null, Null, "false",
                    imageFails)
    \/ ResetDatabase

SpecIssue == Init /\ [][NextIssue]_vars

\* the methods of the model: passes consumed through markAsUsed
NextMethods ==
    \/ Tick(FirstTick + ShortTicks)
    \/ \E code \in GenCodes \ DOMAIN store, expiryHours \in {Null, MaxExpiry} :
           Generate(code, Txt(0, 1), NoTxt, expiryHours, Null, Null, Null, "false", FALSE)
    \/ \E code \in GenCodes, scannerId \in Scanners : CallMarkAsUsed(code, scannerId)

SpecMethods == Init /\ [][NextMethods]_vars

\* one redemption request at a time from its arrival to its response, on a
\* store whose lookups and saves can fail and whose collection can be dropped
NextAnswer ==
    \/ Generate("A1", Txt(0, 1), NoTxt, Null, Null, Null, Null, "false", FALSE)
    \/ \E route \in Routes, code \in GenCodes, qs \in QueryParams,
          lookupFails \in BOOLEAN :
           Start(1, route, Chars(code), qs, lookupFails)
    \/ SaveOk(1)
    \/ \E throws \in BOOLEAN : SaveGone(1, throws)
    \/ \E committed \in BOOLEAN : SaveFails(1, committed)
    \/ Close(1)
    \/ ResetDatabase

\* the promise of save() settles: it resolves or it rejects
Settle ==
    \/ SaveOk(1)
    \/ \E throws \in BOOLEAN : SaveGone(1, throws)
    \/ \E committed \in BOOLEAN : SaveFails(1, committed)

SpecAnswer == Init /\ [][NextAnswer]_vars /\ WF_vars(Settle)

\* request bodies through validateBarcodeInput: strings and missing fields as
\* in issuance, and JSON numbers
NextValidate ==
    \E issuedTo \in IssuedToForms \cup {Num(0), Num(MaxIssuedTo)},
       purpose \in PurposeForms \cup {Num(MaxPurpose + 1)} :
        Validate(issuedTo, purpose)

SpecValidate == Init /\ [][NextValidate]_vars

\* codes through the encoder on every deployment
NextEncode ==
    \E env \in Envs, origin \in Origins, code \in Codes, barcodeType \in BarcodeTypes :
        Encode(env, origin, code, barcodeType)

SpecEncode == Init /\ [][NextEncode]_vars

----------------------------------------------------------------------------
\* Properties.

\* request r starts in this step
Starts(r) == req[r].pc = "idle" /\ req'[r].pc # "idle"

\* request r starts in this step on a stored, unused document
StartsOnUnused(r) ==
    /\ Starts(r)
    /\ req'[r].code \in DOMAIN store
    /\ ~store[req'[r].code].used

\* document d is not expired at instant t
Unexpired(d, t) == d.expiresAt = Null \/ t <= d.expiresAt

\* C1: of the redemption requests running concurrently on one fresh, valid
\* pass, only one answers access granted (the others answer denied)
C1_OneGrantPerPass ==
    \A r1, r2 \in Slot :
        (/\ r1 # r2
         /\ req[r1].pc = "done" /\ req[r1].resp = "granted"
         /\ req[r2].pc = "done" /\ req[r2].resp = "granted")
        => req[r1].id # req[r2].id

\* C2: with requests run one after another, a redemption of a pass that was
\* already granted is denied as already used and leaves the store, and so the
\* usedAt of the granted redemption, as it is
C2_LaterRedemptionDeniedUsed ==
    [][\A r \in Slot :
          (/\ Starts(r)
           /\ req'[r].code \in DOMAIN store
           /\ store[req'[r].code].used)
          => (/\ req'[r].pc = "done"
              /\ req'[r].resp = "used"
              /\ store' = store)]_vars

\* C3: once the usedAt of a stored pass holds a timestamp, no step changes it
C3_UsedAtWrittenOnce ==
    [][\A c \in DOMAIN store :
          (store[c].usedAt # Null /\ c \in DOMAIN store'
              /\ store'[c].id = store[c].id)
          => store'[c].usedAt = store[c].usedAt]_vars

C5_UsedAtIffUsed ==
    \A c \in DOMAIN store : (store[c].usedAt # Null) <=> store[c].used

\* a request was granted and its save wrote used and usedAt together
C5_Witness ==
    \E r \in Slot :
        /\ req[r].pc = "done" /\ req[r].resp = "granted"
        /\ req[r].code \in DOMAIN store
        /\ store[req[r].code].used
        /\ store[req[r].code].usedAt = req[r].usedAt

\* C6: on every entry point an unused pass whose expiresAt is earlier than
\* now is denied as expired, whatever its schedule, and is not marked used
C6_ExpiredDenied ==
    [][\A r \in Slot :
          (/\ StartsOnUnused(r)
           /\ ~Unexpired(store[req'[r].code], now))
          => (req'[r].pc = "done" /\ req'[r].resp = "expired")]_vars

\* C7: on every entry point an unused, unexpired pass without activeDate is
\* granted at any instant
C7_NoActiveDateGranted ==
    [][\A r \in Slot :
          (/\ StartsOnUnused(r)
           /\ Unexpired(store[req'[r].code], now)
           /\ store[req'[r].code].activeDate = Null)
          => req'[r].pc = "saving"]_vars

\* the calendar day of now where the server runs, which is also the day its
\* current "HH:MM" belongs to
Today == LocalDay(now)

\* the calendar day that was submitted as activeDate for document d
ActiveDay(d) == UtcDay(d.activeDate)

\* request r starts in this step on a stored, unused, unexpired document
\* that has an activeDate
StartsOnScheduled(r) ==
    /\ StartsOnUnused(r)
    /\ Unexpired(store[req'[r].code], now)
    /\ store[req'[r].code].activeDate # Null

\* C8: a redemption on a calendar day before the activeDate of the pass is
\* denied as not yet active without allowEarlyAccess, and granted at any time
\* of day with it
C8_BeforeEventDay ==
    [][\A r \in Slot :
          (/\ StartsOnScheduled(r)
           /\ Today < ActiveDay(store[req'[r].code]))
          => IF store[req'[r].code].allowEarlyAccess
             THEN req'[r].pc = "saving"
             ELSE req'[r].pc = "done" /\ req'[r].resp = "not_yet_active"]_vars

\* C9: a redemption on the event day is granted exactly when
\* activeTime <= currentTime <= endTime, denied as too early before
\* activeTime and as too late after endTime
C9_EventDayWindow ==
    [][\A r \in Slot :
          (/\ StartsOnScheduled(r)
           /\ Today = ActiveDay(store[req'[r].code]))
          => LET d == store[req'[r].code]
             IN  IF CurrentTime(now) < d.activeTime
                 THEN req'[r].pc = "done" /\ req'[r].resp = "too_early"
                 ELSE IF CurrentTime(now) > d.endTime
                 THEN req'[r].pc = "done" /\ req'[r].resp = "too_late"
                 ELSE req'[r].pc = "saving"]_vars

\* C10: every redemption on a calendar day after the event day is denied as
\* window elapsed, whatever allowEarlyAccess and the time of day are (so that,
\* the clock never going back, no redemption after such a denial is granted)
C10_AfterEventDay ==
    [][\A r \in Slot :
          (/\ StartsOnScheduled(r)
           /\ Today > ActiveDay(store[req'[r].code]))
          => (req'[r].pc = "done" /\ req'[r].resp = "window_elapsed")]_vars

\* C11: whatever the offset of the server from UTC, a pass issued with
\* activeDate = D is granted on local date D at a local time inside its window,
\* and on local dates before and after D it is not handled as on its event day
\* (not run through the time window: neither too early nor too late, no grant
\* after D, and no grant before D without allowEarlyAccess)
C11_OneReferenceTimezone ==
    [][\A r \in Slot :
          StartsOnScheduled(r)
          => LET d == store[req'[r].code]
                 windowed == req'[r].pc = "done"
                                 /\ req'[r].resp \in {"too_early", "too_late"}
             IN  /\ (/\ Today = ActiveDay(d)
                     /\ d.activeTime <= CurrentTime(now)
                     /\ CurrentTime(now) <= d.endTime) => req'[r].pc = "saving"
                 /\ Today < ActiveDay(d)
                        => ~windowed /\ (req'[r].pc = "saving" => d.allowEarlyAccess)
                 /\ Today > ActiveDay(d)
                        => ~windowed /\ req'[r].pc # "saving"]_vars

\* C12: on every stored pass and at every instant, the three redemption routes
\* of a server file and the two server files reach the same verdict (grant, or
\* the same deny reason), and so the same write
C12_EntryPointsAgree ==
    \A c \in DOMAIN store :
        \A v1, v2 \in Variants, r1, r2 \in Routes :
            Decide(v1, r1, <<store[c]>>, now) = Decide(v2, r2, <<store[c]>>, now)

\* C13: a redemption request whose lookup or save fails answers denied, on
\* every route
C13_StoreFailureDenied ==
    [][\A r \in Slot :
          (\/ \E route \in Routes, code \in Codes, qs \in QueryParams :
                 Start(r, route, Chars(code), qs, TRUE)
           \/ \E committed \in BOOLEAN : SaveFails(r, committed)
           \/ SaveGone(r, TRUE))
          => (req'[r].pc = "done" /\ Access(req'[r].resp) = "denied")]_vars

\* C14: a redemption request for a code that matches no stored document is
\* answered denied on every route, and the collection stays as it is
C14_UnknownCodeDenied ==
    [][\A r \in Slot :
          (\E route \in Routes, code \in Codes \ DOMAIN store, qs \in QueryParams :
               Start(r, route, Chars(code), qs, FALSE))
          => (/\ req'[r].pc = "done"
              /\ Access(req'[r].resp) = "denied"
              /\ store' = store)]_vars

\* the reasons a redemption is denied for
DenyReasons == {"used", "expired", "not_yet_active", "window_elapsed",
                "too_early", "too_late", "not_found"}

\* C15: a step in which a redemption request is answered with a denial
\* (already used, expired, not yet active, window elapsed, too early, too
\* late, not found) leaves every field of every stored pass unchanged
C15_DenialLeavesStore ==
    [][\A r \in Slot :
          (/\ req[r].pc # "done"
           /\ req'[r].pc = "done"
           /\ req'[r].resp \in DenyReasons)
          => store' = store]_vars

\* a request on a stored, unused pass was denied for its schedule
C15_Witness ==
    \E r \in Slot :
        /\ req[r].pc = "done"
        /\ req[r].resp \in {"not_yet_active", "window_elapsed", "too_early", "too_late"}
        /\ req[r].code \in DOMAIN store
        /\ ~store[req[r].code].used
        /\ store[req[r].code].usedAt = Null

\* C16: a redemption submitted under any spelling of the code of a stored pass
\* (letters in either case, spaces around it) looks up that pass and gets the
\* answer the same request gets when it submits the code itself
C16_SpellingsResolve ==
    [][\A r \in Slot :
          \A c \in DOMAIN store :
              (Starts(r) /\ req'[r].submitted \in Spellings(c))
              => /\ req'[r].code = c
                 /\ [req'[r] EXCEPT !.submitted = Chars(c)]
                        = Answer(req'[r].route, Chars(c), req'[r].qs, FALSE)]_vars

\* a pass was granted to a request that wrote its code in lowercase between
\* spaces
C16_Witness ==
    \E r \in Slot :
        /\ req[r].pc = "done" /\ req[r].resp = "granted"
        /\ req[r].code \in DOMAIN store
        /\ req[r].submitted = Pad(MaxPad) \o <<"a", "1">> \o Pad(MaxPad)
        /\ store[req[r].code].used

\* C17: an issuance that answered a fatal error because the generated code
\* was already stored had generated more than one code (it retried first)
C17_DuplicateRetried ==
    issue.error = "E11000" => issue.attempts > 1

\* C18: every stored pass has an issuedTo of 1 to 100 characters and a
\* purpose that is absent or of at most 200 characters
C18_LengthBounds ==
    \A c \in DOMAIN store :
        /\ store[c].issuedTo # Null
        /\ store[c].issuedTo >= 1
        /\ store[c].issuedTo <= MaxIssuedTo
        /\ store[c].purpose = Null \/ store[c].purpose <= MaxPurpose

\* C19: a pass created by POST /generate with an activeDate and without
\* activeTime and endTime is stored with the window 00:00 to 23:59
C19_DefaultWindowFullDay ==
    [][\A code \in GenCodes, expiryHours \in {Null, MaxExpiry},
          allowEarlyAccess \in EarlyForms :
          (/\ Generate(code, Txt(0, 1), NoTxt, expiryHours, EventDay, Null, Null,
                       allowEarlyAccess, FALSE)
           /\ issue'.resp = "created")
          => (/\ store'[code].activeTime = SchemaActiveTime
              /\ store'[code].endTime = SchemaEndTime)]_vars

\* C20: a document is never created under a code that a document removed from
\* the collection had (the collection, keyed by code, holds one document per
\* code)
C20_CodeNeverReused ==
    [][\A c \in DOMAIN store' : c \notin DOMAIN store => c \notin retired]_vars

C22_ConsumeUsedWritesNothing ==
    [][\A c \in DOMAIN store :
          (store[c].used /\ c \in DOMAIN store' /\ store'[c].id = store[c].id)
          => (/\ store'[c].used
              /\ store'[c].usedAt = store[c].usedAt
              /\ store'[c].scannerId = store[c].scannerId)]_vars

C24_ScheduleStoredAsSubmitted ==
    [][\A code \in GenCodes, expiryHours \in {Null, MaxExpiry},
          activeTime \in {Null, SchemaActiveTime}, endTime \in {Null, SchemaEndTime},
          allowEarlyAccess \in {"absent", "false", "'false'"} :
          (/\ Generate(code, Txt(0, 1), NoTxt, expiryHours, EventDay, activeTime,
                       endTime, allowEarlyAccess, FALSE)
           /\ issue'.resp = "created")
          => (/\ store'[code].activeDate = ParseDate(EventDay)
              /\ ~store'[code].allowEarlyAccess)]_vars

\* C25: a request is answered access granted only in a step in which the
\* stored pass of its code goes from used = false to used = true
C25_GrantedOnlyByConsuming ==
    [][\A r \in Slot :
          (/\ req[r].pc # "done"
           /\ req'[r].pc = "done"
           /\ Access(req'[r].resp) = "granted")
          => (/\ req'[r].code \in DOMAIN store
              /\ ~store[req'[r].code].used
              /\ req'[r].code \in DOMAIN store'
              /\ store'[req'[r].code].used)]_vars

\* C26: the save of a redemption request is answered access granted only for
\* a code of POST /generate, never for HEALTH_CHECK or TIMETEST123
C26_OnlyIssuedPassesGranted ==
    [][\A r \in Slot :
          (req[r].pc = "saving" /\ req'[r].pc = "done" /\ req'[r].resp = "granted")
          => req[r].code \in GenCodes]_vars

\* C27: a POST /generate request that answers with an error leaves the
\* collection as it was
C27_IssuanceAllOrNothing ==
    [][\A code \in GenCodes, issuedTo \in IssuedToForms, purpose \in PurposeForms,
          expiryHours \in ExpiryForms, imageFails \in BOOLEAN :
          (/\ Generate(code, issuedTo, purpose, expiryHours, Null, Null, Null,
                       "false", imageFails)
           /\ issue'.resp # "created")
          => store' = store]_vars

\* C28: the expiresAt of a created pass is null without expiryHours, and
\* otherwise the issuance instant plus expiryHours hours, which is not earlier
\* than the issuance instant
C28_ExpiresAtArithmetic ==
    [][\A code \in GenCodes, issuedTo \in IssuedToForms, purpose \in PurposeForms,
          expiryHours \in ExpiryForms, imageFails \in BOOLEAN :
          (/\ Generate(code, issuedTo, purpose, expiryHours, Null, Null, Null,
                       "false", imageFails)
           /\ code \in DOMAIN store' \ DOMAIN store)
          => IF expiryHours = Null
             THEN store'[code].expiresAt = Null
             ELSE /\ store'[code].expiresAt = now + expiryHours * TicksPerHour
                  /\ store'[code].expiresAt >= now]_vars

\* C29: a redemption request that has been answered has sent one response,
\* a request that has not been answered has sent none, and every request that
\* waits for its save is answered
C29_ExactlyOneResponse ==
    /\ [](\A r \in Slot : req[r].sent = IF req[r].pc = "done" THEN 1 ELSE 0)
    /\ \A r \in Slot : (req[r].pc = "saving") ~> (req[r].pc = "done")

\* a request whose save was rejected has been answered once, by its catch block
C29_Witness ==
    \E r \in Slot :
        /\ req[r].pc = "done"
        /\ req[r].sent = 1
        /\ req[r].id # 0
        /\ req[r].resp \in {"system_error", "no_result", "param_granted", "param_denied"}

\* C30: validateBarcodeInput calls next() once and sends nothing when issuedTo
\* is a non-blank string of at most 100 characters and purpose is missing or
\* a string of at most 200 characters; on every other body it sends one 400
\* response and does not call next()
C30_ValidateBarcodeInput ==
    validated.called =>
        LET issuedTo == validated.issuedTo
            purpose == validated.purpose
            accepted == /\ issuedTo # NoTxt
                        /\ IsString(issuedTo)
                        /\ issuedTo.len > 0
                        /\ Length(issuedTo) <= MaxIssuedTo
                        /\ \/ purpose = NoTxt
                           \/ IsString(purpose) /\ Length(purpose) <= MaxPurpose
        IN  IF accepted
            THEN validated.next = 1 /\ validated.responses = <<>>
            ELSE validated.next = 0 /\ validated.responses = <<400>>

\* C30 on the bodies whose issuedTo and purpose are strings or missing
C30_OnStrings ==
    (/\ validated.issuedTo = NoTxt \/ IsString(validated.issuedTo)
     /\ validated.purpose = NoTxt \/ IsString(validated.purpose))
    => C30_ValidateBarcodeInput

\* C31: the text POST /generate encodes is <base URL>/mobile-scan/<code> for
\* qrcode and the code itself for every other type, and the text GET
\* /download/:code encodes for the same code on the same deployment is the
\* scanUrl POST /generate reported
C31_EncoderPayload ==
    encoded.called =>
        /\ encoded.generated =
               IF encoded.barcodeType = "qrcode"
               THEN BaseUrl(variant, "generate", encoded.env, encoded.origin)
                        \o <<"/mobile-scan/", encoded.code>>
               ELSE <<encoded.code>>
        /\ encoded.downloaded = encoded.scanUrl

\* the schedule checks of POST /verify do not deny document d at instant t
ScheduleAllows(d, t) ==
    PostVerifyDecision([d EXCEPT !.used = FALSE, !.expiresAt = Null], t) = "grant"

\* C32: for every stored pass and every instant, isActive() is true exactly
\* when the schedule checks of the redemption handlers do not deny
C32_IsActiveAgrees ==
    \A c \in DOMAIN store : isActive(store[c], now) <=> ScheduleAllows(store[c], now)

====
